---- MODULE Spec2Model ----
(***************************************************************************)
(* Model of static/js/app.js: the session store (getToken/setToken), the   *)
(* fetch wrapper apiRequest, and the page controllers (login, signup,      *)
(* task load, task create, task delete, logout).                           *)
(*                                                                         *)
(* Every network call is a suspension point: a controller is modelled as   *)
(* one action per synchronous segment (from the event or the resumption    *)
(* up to the next await or the end of the handler).                        *)
(***************************************************************************)
EXTENDS Integers, Sequences, FiniteSets, TLC

VARIABLES
    token,      \* localStorage["devtask_token"]; Absent when the key is not set
    page,       \* the document that is loaded: "auth", "dashboard" or "home"
    loaded,     \* TRUE once the DOMContentLoaded listener has run on this document
    loginError, \* #login-error: [hidden, text]
    signupError,\* #signup-error: [hidden, text]
    listEl,     \* #task-list content
    statsEl,    \* #task-stats textContent
    newTaskForm,\* the fields of #new-task-form
    procs,      \* every controller invocation so far, in the order they started
    requests,   \* every HTTP request issued by fetch, in issue order
    lastLoad,   \* index in procs of the load that completed most recently (0: none)
    lastRes,    \* what fetch settled with most recently, and for which invocation
    call        \* one isolated apiRequest invocation (specification SpecApi)

vars == <<token, page, loaded, loginError, signupError, listEl, statsEl,
          newTaskForm, procs, requests, lastLoad, lastRes, call>>

----------------------------------------------------------------------------
(* Bounds *)

MaxProcs == 4       \* controller invocations one document runs
MaxDashboardProcs == 5  \* the same, when the dashboard is followed on its own
MaxTaskId == 2      \* the server's tasks have ids 1..MaxTaskId

----------------------------------------------------------------------------
(* Values *)

\* null / undefined: a missing storage key, a missing JSON field
Absent == "<absent>"

\* JavaScript truthiness of a string-or-missing value
Truthy(s) == s # Absent /\ s # ""

Tokens == {"tokA", "tokB"}
StoredTokens == {Absent} \cup Tokens

FallbackMessage == "Request failed"

\* messages of errors raised by the runtime, not by app.js
NetworkErrorMessages == {"Failed to fetch"}
SyntaxErrorMessage == "Unexpected token in JSON"
TypeErrorMessage == "Cannot read properties"

Details == {Absent, "", "Invalid credentials"}
AccessTokens == {Absent, ""} \cup Tokens

Statuses == {200, 204, 401}
Ok(status) == status >= 200 /\ status <= 299

----------------------------------------------------------------------------
(* Session store *)

\* (mutant of SetToken: the removeItem branch is missing)
SetTokenNeverRemoves(t) == IF Truthy(t) THEN t ELSE token

\* (mutant of SetToken: the token is stored whatever it is)
SetTokenStoresAny(t) == t

\* the value of the storage key after setToken(t)
SetToken(t) == IF Truthy(t) THEN t ELSE Absent

----------------------------------------------------------------------------
(* JSON bodies and HTTP responses (the environment's inputs) *)

\* the server's tasks: {id, title, status, time_logged}; time_logged in
\* hundredths of an hour (multiples of 0.25 h are exact as binary floats)
TaskIds == 1..MaxTaskId
TaskStatuses == <<"done", "todo", "in_progress">>
TaskTimes == <<225, 100, 75>>
Task(id) ==
    [id |-> id,
     title |-> "T" \o ToString(id),
     status |-> TaskStatuses[((id - 1) % 3) + 1],
     time_logged |-> TaskTimes[((id - 1) % 3) + 1]]

\* the item lists GET /tasks can return: the first n tasks, n = 0..MaxTaskId
TaskLists == {[i \in 1..n |-> Task(i)] : n \in 0..MaxTaskId}

\* a response body as res.json() sees it: text that is not JSON, the JSON
\* value null, or a JSON object with some of the fields app.js reads
Body(kind, detail, access_token, hasItems, items) ==
    [kind |-> kind, detail |-> detail, access_token |-> access_token,
     hasItems |-> hasItems, items |-> items]
MalformedBody == Body("malformed", Absent, Absent, FALSE, <<>>)
NullBody == Body("null", Absent, Absent, FALSE, <<>>)
EmptyObject == Body("object", Absent, Absent, FALSE, <<>>)

ErrorBodies ==
    {MalformedBody, NullBody} \cup {Body("object", d, Absent, FALSE, <<>>) : d \in Details}
LoginBodies ==
    {MalformedBody, NullBody}
        \cup {Body("object", Absent, a, FALSE, <<>>) : a \in AccessTokens}
TaskListBodies ==
    {MalformedBody, NullBody, EmptyObject}
        \cup {Body("object", Absent, Absent, TRUE, l) : l \in TaskLists}
PlainBodies == {MalformedBody, EmptyObject}

\* what fetch settles with: a rejection (network failure) or a Response
Rejected(message) == [failed |-> TRUE, message |-> message, status |-> 0, body |-> MalformedBody]
Response(status, body) == [failed |-> FALSE, message |-> "", status |-> status, body |-> body]

SuccessBodies(method, path) ==
    IF path = "/auth/login" THEN LoginBodies
    ELSE IF path = "/tasks" /\ method = "GET" THEN TaskListBodies
    ELSE PlainBodies

\* every response an isolated apiRequest call is exercised with
Responses(method, path) ==
    {Rejected(m) : m \in NetworkErrorMessages}
        \cup {Response(s, b) : s \in {s \in Statuses : ~Ok(s)}, b \in ErrorBodies}
        \cup {Response(s, b) : s \in {s \in Statuses : Ok(s) /\ s # 204},
                                b \in SuccessBodies(method, path)}
        \cup {Response(204, MalformedBody)}

\* the responses the controllers are exercised with: of the error bodies, one
\* without and one with a detail
ControllerResponses(method, path) ==
    {r \in Responses(method, path) :
        (~r.failed /\ ~Ok(r.status)) =>
            r.body \in {EmptyObject, Body("object", "Invalid credentials", Absent, FALSE, <<>>)}}

----------------------------------------------------------------------------
(* apiRequest *)

API_BASE == ""

NoHeaders == [k \in {} |-> ""]
Options(method, body, headers) == [method |-> method, body |-> body, headers |-> headers]
NoOptions == Options(Absent, Absent, NoHeaders)

\* Object.assign(target, a, b): later sources overwrite earlier ones
Assign(a, b) ==
    [k \in DOMAIN a \cup DOMAIN b |-> IF k \in DOMAIN b THEN b[k] ELSE a[k]]

\* (mutant of ApiHeaders: the caller's headers are applied last)
ApiHeadersCallerLast(tok, options) ==
    Assign(Assign([k \in {"Content-Type"} |-> "application/json"],
                  IF Truthy(tok) THEN [k \in {"Authorization"} |-> "Bearer " \o tok]
                  ELSE NoHeaders),
           options.headers)

\* lines 17-21
ApiHeaders(tok, options) ==
    Assign(Assign([k \in {"Content-Type"} |-> "application/json"], options.headers),
           IF Truthy(tok) THEN [k \in {"Authorization"} |-> "Bearer " \o tok] ELSE NoHeaders)

\* lines 23-26: the request handed to fetch
FetchRequest(tok, path, options) ==
    [url |-> API_BASE \o path,
     method |-> IF options.method = Absent THEN "GET" ELSE options.method,
     body |-> options.body,
     headers |-> ApiHeaders(tok, options)]

\* (mutant of ErrorMessage: data.detail ?? message, so an empty detail is kept)
ErrorMessageNullish(body) ==
    IF body.kind = "object" /\ body.detail # Absent THEN body.detail ELSE FallbackMessage

\* lines 29-33: the message of the error thrown for a non-ok response
ErrorMessage(body) ==
    IF body.kind = "object" /\ Truthy(body.detail) THEN body.detail ELSE FallbackMessage

\* (mutant of NoContent: the 204 shortcut is missing)
NoContentNever(status) == FALSE

\* line 37
NoContent(status) == status = 204

\* whether apiRequest calls res.json() on this response
ParsesBody(res) ==
    /\ ~res.failed
    /\ (~Ok(res.status) \/ ~NoContent(res.status))

Throw(message) == [thrown |-> TRUE, message |-> message, value |-> NullBody]
Return(value) == [thrown |-> FALSE, message |-> "", value |-> value]

\* (mutant of ApiOutcome: a rejected fetch is rethrown with the fallback message)
ApiOutcomeWrapsRejection(res) ==
    IF res.failed THEN Throw(FallbackMessage)
    ELSE IF ~Ok(res.status) THEN Throw(ErrorMessage(res.body))
    ELSE IF NoContent(res.status) THEN Return(NullBody)
    ELSE IF res.body.kind = "malformed" THEN Throw(SyntaxErrorMessage)
    ELSE Return(res.body)

\* (mutant of ApiOutcome: a success body that does not parse is returned as null)
ApiOutcomeSwallowsParseError(res) ==
    IF res.failed THEN Throw(res.message)
    ELSE IF ~Ok(res.status) THEN Throw(ErrorMessage(res.body))
    ELSE IF NoContent(res.status) THEN Return(NullBody)
    ELSE IF res.body.kind = "malformed" THEN Return(NullBody)
    ELSE Return(res.body)

\* lines 23-38: how the promise of apiRequest settles, given what fetch settles with
ApiOutcome(res) ==
    IF res.failed THEN Throw(res.message)
    ELSE IF ~Ok(res.status) THEN Throw(ErrorMessage(res.body))
    ELSE IF NoContent(res.status) THEN Return(NullBody)
    ELSE IF res.body.kind = "malformed" THEN Throw(SyntaxErrorMessage)
    ELSE Return(res.body)

----------------------------------------------------------------------------
(* The pages.  The markup is not part of app.js: "auth" is the document    *)
(* that carries the login and signup forms, "/static/dashboard.html" the   *)
(* dashboard and "/" the home page the logout handler navigates to.        *)

AuthPage == "auth"
DashboardPage == "/static/dashboard.html"
HomePage == "/"

Elements(p) ==
    IF p = AuthPage THEN {"login-form", "login-error", "signup-form", "signup-error"}
    ELSE IF p = DashboardPage
    THEN {"new-task-form", "task-list", "task-stats", "logout-btn"}
    ELSE {}

HiddenError == [hidden |-> TRUE, text |-> ""]
BlankList == [kind |-> "blank", rows |-> <<>>, text |-> ""]
FormDefaults == [title |-> "", status |-> "todo", time_logged |-> ""]

\* what the user can type into the forms
Credentials ==
    {[email |-> "a@example.com", password |-> "pw-a"],
     [email |-> "b@example.com", password |-> "pw-b"]}
NoCredentials == [email |-> "", password |-> ""]
TypedTask == [title |-> "write docs", status |-> "in_progress", time_logged |-> "1.5"]

\* parseFloat of the texts the time field can hold, in hundredths of an hour
ParseFloat(text) == IF text = "1.5" THEN 150 ELSE 0

----------------------------------------------------------------------------
(* Rendering (loadTasks, lines 103-157) *)

PlaceholderText == "No tasks yet. Create your first one above."

\* (mutant of ToFixed1: the digits after the first decimal are cut off)
ToFixed1Truncates(x) == ToString(x \div 100) \o "." \o ToString((x \div 10) % 10)

\* x.toFixed(1) for x in hundredths: the nearest tenth, the larger one on a tie
ToFixed1(x) ==
    LET tenths == (x + 5) \div 10
    IN  ToString(tenths \div 10) \o "." \o ToString(tenths % 10)

\* status.replace("_", " "): the first underscore only
StatusLabel(status) ==
    IF status = "in_progress" THEN "in progress" ELSE status

\* lines 118-152: one row per task; task is the id the row's Delete button is bound to
Row(t) ==
    [task |-> t.id,
     title |-> t.title,
     pillClass |-> "task-status-pill task-status-" \o t.status,
     pill |-> StatusLabel(t.status),
     time |-> ToFixed1(t.time_logged) \o "h logged"]

\* lines 111-116: the running totals of the forEach
RECURSIVE TotalHours(_)
TotalHours(items) ==
    IF items = <<>> THEN 0 ELSE Head(items).time_logged + TotalHours(Tail(items))
RECURSIVE DoneCount(_)
DoneCount(items) ==
    IF items = <<>> THEN 0
    ELSE (IF Head(items).status = "done" THEN 1 ELSE 0) + DoneCount(Tail(items))

\* lines 155-157; the bullet U+2022 of the source is written "*" here
Summary(items) ==
    ToString(Len(items)) \o " tasks * " \o ToString(DoneCount(items)) \o " completed * "
        \o ToFixed1(TotalHours(items)) \o "h logged"

\* (mutant of RenderList: line 103 is missing, new rows join the old ones)
RenderListKeepsRows(items) ==
    IF Len(items) = 0
    THEN [kind |-> "placeholder", rows |-> <<>>, text |-> PlaceholderText]
    ELSE [kind |-> "rows", rows |-> listEl.rows \o [i \in 1..Len(items) |-> Row(items[i])],
          text |-> ""]

\* lines 103-153: the content of #task-list for a response that carries items
RenderList(items) ==
    IF Len(items) = 0
    THEN [kind |-> "placeholder", rows |-> <<>>, text |-> PlaceholderText]
    ELSE [kind |-> "rows", rows |-> [i \in 1..Len(items) |-> Row(items[i])], text |-> ""]

\* (mutant of RenderStats: line 107 is missing, an empty list leaves the
\* summary as it was)
RenderStatsKeepsOld(items) == IF Len(items) = 0 THEN statsEl ELSE Summary(items)

\* lines 107, 155
RenderStats(items) == IF Len(items) = 0 THEN "" ELSE Summary(items)

\* (mutant of RenderError: the message is added to what the list holds)
RenderErrorKeepsRows(message) == [kind |-> "error", rows |-> listEl.rows, text |-> message]

\* lines 158-160
RenderError(message) == [kind |-> "error", rows |-> <<>>, text |-> message]

\* (mutant of ShowError: the element is never unhidden)
ShowErrorHidden(message) == [hidden |-> TRUE, text |-> message]

\* lines 61-62, 90-91
ShowError(message) == [hidden |-> FALSE, text |-> message]

\* no isolated apiRequest invocation is under way (every state of Spec)
IdleCall ==
    [pc |-> "idle", path |-> "", options |-> NoOptions, sent |-> <<>>, res |-> <<>>,
     parses |-> 0, settled |-> <<>>]

----------------------------------------------------------------------------
(* Controller invocations of the current document.  A proc is one          *)
(* invocation of a handler: pc is the await it is suspended at ("done"     *)
(* once it has finished),                                                  *)
(* parent the invocation that called it, result how it ended, prior the    *)
(* token that was stored when its last segment began; for a load, items    *)
(* are the tasks it received and err the message it rendered.              *)

NewProc(kind, pc, parent) ==
    [kind |-> kind, pc |-> pc, parent |-> parent, creds |-> NoCredentials, task |-> 0,
     result |-> "pending", prior |-> Absent, err |-> "", items |-> <<>>]

NoRes == [proc |-> 0, res |-> Rejected("")]
Settled(i, res) == [proc |-> i, res |-> res]

InFlight(p) == p.pc # "done"

\* suspended invocations that call loadTasks, or load the dashboard, when
\* they resume
Reserved ==
    Cardinality({i \in 1..Len(procs) :
        InFlight(procs[i]) /\ procs[i].kind \in {"login", "signup", "create", "delete"}})
\* a behaviour is followed while the record has room: the user starts a
\* handler that makes n invocations only while there is room for them and
\* for those the suspended handlers will make
Room(n) == Len(procs) + Reserved + n <= MaxProcs
DashboardRoom(n) == Len(procs) + Reserved + n <= MaxDashboardProcs

\* (mutant of Sent: the request is issued a second time)
SentTwice(rs, i, path, options) ==
    Append(Append(rs, [proc |-> i, req |-> FetchRequest(token, path, options)]),
           [proc |-> i, req |-> FetchRequest(token, path, options)])

\* apiRequest, lines 16-26, called by invocation i: one fetch, added to the log
Sent(rs, i, path, options) ==
    Append(rs, [proc |-> i, req |-> FetchRequest(token, path, options)])

Finished(p, result) == [p EXCEPT !.pc = "done", !.result = result, !.prior = token]

\* what the code after "await apiRequest(...)" sees when it reads a property
\* of the awaited value: the rejection, a TypeError for null, or the object
Awaited(out) ==
    IF out.thrown THEN out
    ELSE IF out.value.kind = "null" THEN Throw(TypeErrorMessage)
    ELSE out

\* (mutant of Proceeds: the statements after the await run in a finally block)
ProceedsAlways(out) == TRUE

\* lines 142-143, 174-180: the statements after an await outside any try run
\* only when the awaited promise fulfils
Proceeds(out) == ~out.thrown

\* loadTasks, lines 96-102: look up the elements, issue GET /tasks, suspend
LoadStarted(ps, rs, parent) ==
    IF "task-list" \in Elements(page)
    THEN [procs |-> Append(ps, NewProc("load", "tasks", parent)),
          requests |-> Sent(rs, Len(ps) + 1, "/tasks", NoOptions)]
    ELSE [procs |-> ps, requests |-> rs]

\* assigning window.location.href: the document is replaced, its suspended
\* handlers never resume, and the new document starts from its markup; of the
\* old document's invocations only the navigating one, by, is kept on record
Navigate(href, by) ==
    /\ page' = href
    /\ loaded' = FALSE
    /\ loginError' = HiddenError
    /\ signupError' = HiddenError
    /\ listEl' = BlankList
    /\ statsEl' = ""
    /\ newTaskForm' = FormDefaults
    /\ lastLoad' = 0
    /\ procs' = <<by>>
    /\ requests' = <<>>

----------------------------------------------------------------------------
(* Page set-up, lines 183-214 *)

\* the listener of the document just loaded runs; what is on record of the
\* document before it (the invocation that navigated here) is dropped
DOMContentLoaded ==
    /\ ~loaded
    /\ loaded' = TRUE
    /\ LET started == IF "new-task-form" \in Elements(page)
                      THEN LoadStarted(<<>>, <<>>, 0)
                      ELSE [procs |-> <<>>, requests |-> <<>>]
       IN  procs' = started.procs /\ requests' = started.requests
    /\ lastRes' = NoRes
    /\ UNCHANGED <<token, page, loginError, signupError, listEl, statsEl, newTaskForm,
                   lastLoad, call>>

----------------------------------------------------------------------------
(* handleLogin, lines 42-64 *)

\* (mutant of SubmitLogin: line 46 is missing, an error shown earlier stays visible)
SubmitLoginKeepsError(c) ==
    /\ loaded
    /\ "login-form" \in Elements(page)
    /\ procs' = Append(procs, [NewProc("login", "login", 0) EXCEPT !.creds = c])
    /\ requests' = Sent(requests, Len(procs) + 1, "/auth/login", Options("POST", c, NoHeaders))
    /\ UNCHANGED <<token, page, loaded, loginError, signupError, listEl, statsEl,
                   newTaskForm, lastLoad, lastRes, call>>

SubmitLogin(c) ==
    /\ loaded
    /\ "login-form" \in Elements(page)
    /\ loginError' = [loginError EXCEPT !.hidden = TRUE]
    /\ procs' = Append(procs, [NewProc("login", "login", 0) EXCEPT !.creds = c])
    /\ requests' = Sent(requests, Len(procs) + 1, "/auth/login", Options("POST", c, NoHeaders))
    /\ UNCHANGED <<token, page, loaded, signupError, listEl, statsEl, newTaskForm,
                   lastLoad, lastRes, call>>

\* (mutant of LoginSettles: the catch block also signs the user out)
LoginSettlesClearsToken(i, res) ==
    /\ procs[i].kind = "login"
    /\ procs[i].pc = "login"
    /\ LET data == Awaited(ApiOutcome(res))
       IN  IF data.thrown
           THEN /\ loginError' = ShowError(data.message)
                /\ token' = SetToken(Absent)
                /\ procs' = [procs EXCEPT ![i] = Finished(@, "caught")]
                /\ lastRes' = Settled(i, res)
                /\ UNCHANGED <<page, loaded, signupError, listEl, statsEl,
                               newTaskForm, lastLoad, requests>>
           ELSE /\ token' = SetToken(data.value.access_token)
                /\ Navigate(DashboardPage, Finished(procs[i], "ok"))
                /\ lastRes' = Settled(1, res)
    /\ UNCHANGED call

LoginSettles(i, res) ==
    /\ procs[i].kind = "login"
    /\ procs[i].pc = "login"
    /\ LET data == Awaited(ApiOutcome(res))
       IN  IF data.thrown
           THEN /\ loginError' = ShowError(data.message)
                /\ procs' = [procs EXCEPT ![i] = Finished(@, "caught")]
                /\ lastRes' = Settled(i, res)
                /\ UNCHANGED <<token, page, loaded, signupError, listEl, statsEl,
                               newTaskForm, lastLoad, requests>>
           ELSE /\ token' = SetToken(data.value.access_token)
                /\ Navigate(DashboardPage, Finished(procs[i], "ok"))
                /\ lastRes' = Settled(1, res)
    /\ UNCHANGED call

----------------------------------------------------------------------------
(* handleSignup, lines 66-93 *)

SubmitSignup(c) ==
    /\ loaded
    /\ "signup-form" \in Elements(page)
    /\ signupError' = [signupError EXCEPT !.hidden = TRUE]
    /\ procs' = Append(procs, [NewProc("signup", "register", 0) EXCEPT !.creds = c])
    /\ requests' = Sent(requests, Len(procs) + 1, "/auth/register",
                        Options("POST", c, NoHeaders))
    /\ UNCHANGED <<token, page, loaded, loginError, listEl, statsEl, newTaskForm,
                   lastLoad, lastRes, call>>

\* (mutant of RegisterSettles: the register call's outcome is not awaited for,
\* the login call is issued whatever it was)
RegisterSettlesLoginAnyway(i, res) ==
    /\ procs[i].kind = "signup"
    /\ procs[i].pc = "register"
    /\ procs' = [procs EXCEPT ![i].pc = "login"]
    /\ requests' = Sent(requests, i, "/auth/login",
                        Options("POST", procs[i].creds, NoHeaders))
    /\ lastRes' = Settled(i, res)
    /\ UNCHANGED <<token, page, loaded, loginError, signupError, listEl, statsEl,
                   newTaskForm, lastLoad, call>>

\* lines 78-86: the register call settles; on success the login call is issued
RegisterSettles(i, res) ==
    /\ procs[i].kind = "signup"
    /\ procs[i].pc = "register"
    /\ LET out == ApiOutcome(res)
       IN  IF out.thrown
           THEN /\ signupError' = ShowError(out.message)
                /\ procs' = [procs EXCEPT ![i] = Finished(@, "register failed")]
                /\ UNCHANGED requests
           ELSE /\ procs' = [procs EXCEPT ![i].pc = "login"]
                /\ requests' = Sent(requests, i, "/auth/login",
                                    Options("POST", procs[i].creds, NoHeaders))
                /\ UNCHANGED signupError
    /\ lastRes' = Settled(i, res)
    /\ UNCHANGED <<token, page, loaded, loginError, listEl, statsEl, newTaskForm,
                   lastLoad, call>>

\* lines 83-92: the login call of a signup settles
SignupLoginSettles(i, res) ==
    /\ procs[i].kind = "signup"
    /\ procs[i].pc = "login"
    /\ LET login == Awaited(ApiOutcome(res))
       IN  IF login.thrown
           THEN /\ signupError' = ShowError(login.message)
                /\ procs' = [procs EXCEPT ![i] = Finished(@, "login failed")]
                /\ lastRes' = Settled(i, res)
                /\ UNCHANGED <<token, page, loaded, loginError, listEl, statsEl,
                               newTaskForm, lastLoad, requests>>
           ELSE /\ token' = SetToken(login.value.access_token)
                /\ Navigate(DashboardPage, Finished(procs[i], "ok"))
                /\ lastRes' = Settled(1, res)
    /\ UNCHANGED call

----------------------------------------------------------------------------
(* loadTasks, lines 96-162 *)

\* lines 102-105: data.items.length throws a TypeError when items is missing
LoadedItems(out) ==
    LET data == Awaited(out)
    IN  IF data.thrown THEN data
        ELSE IF ~data.value.hasItems THEN Throw(TypeErrorMessage)
        ELSE data

LoadSettles(i, res) ==
    /\ procs[i].kind = "load"
    /\ procs[i].pc = "tasks"
    /\ LET data == LoadedItems(ApiOutcome(res))
       IN  IF data.thrown
           THEN /\ listEl' = RenderError(data.message)
                /\ statsEl' = ""
                /\ procs' = [procs EXCEPT ![i] = [Finished(@, "caught") EXCEPT
                                                      !.err = data.message]]
           ELSE /\ listEl' = RenderList(data.value.items)
                /\ statsEl' = RenderStats(data.value.items)
                /\ procs' = [procs EXCEPT ![i] = [Finished(@, "ok") EXCEPT
                                                      !.items = data.value.items]]
    /\ lastLoad' = i
    /\ lastRes' = Settled(i, res)
    /\ UNCHANGED <<token, page, loaded, loginError, signupError, newTaskForm, requests,
                   call>>

----------------------------------------------------------------------------
(* Delete button, lines 140-144 *)

ClickDelete(r, confirmed) ==
    /\ loaded
    /\ listEl.kind = "rows"
    /\ r \in 1..Len(listEl.rows)
    /\ LET id == listEl.rows[r].task
       IN  IF confirmed
           THEN /\ procs' = Append(procs, [NewProc("delete", "delete", 0) EXCEPT !.task = id])
                /\ requests' = Sent(requests, Len(procs) + 1, "/tasks/" \o ToString(id),
                                    Options("DELETE", Absent, NoHeaders))
           ELSE /\ procs' = Append(procs,
                        [Finished(NewProc("delete", "done", 0), "declined") EXCEPT
                            !.task = id])
                /\ UNCHANGED requests
    /\ UNCHANGED <<token, page, loaded, loginError, signupError, listEl, statsEl,
                   newTaskForm, lastLoad, lastRes, call>>

DeleteSettles(i, res) ==
    /\ procs[i].kind = "delete"
    /\ procs[i].pc = "delete"
    /\ LET out == ApiOutcome(res)
       IN  IF Proceeds(out)
           THEN LET started == LoadStarted([procs EXCEPT ![i] = Finished(@, "ok")],
                                           requests, i)
                IN  procs' = started.procs /\ requests' = started.requests
           ELSE /\ procs' = [procs EXCEPT ![i] = Finished(@, "unhandled")]
                /\ UNCHANGED requests
    /\ lastRes' = Settled(i, res)
    /\ UNCHANGED <<token, page, loaded, loginError, signupError, listEl, statsEl,
                   newTaskForm, lastLoad, call>>

----------------------------------------------------------------------------
(* handleNewTask, lines 164-181 *)

\* the user fills in the new-task form
TypeNewTask ==
    /\ loaded
    /\ "new-task-form" \in Elements(page)
    /\ newTaskForm # TypedTask
    /\ newTaskForm' = TypedTask
    /\ UNCHANGED <<token, page, loaded, loginError, signupError, listEl, statsEl, procs,
                   requests, lastLoad, lastRes, call>>

\* lines 168-172
NewTaskPayload(form) ==
    [title |-> form.title,
     status |-> form.status,
     time_logged |-> IF form.time_logged # "" THEN ParseFloat(form.time_logged) ELSE 0]

\* (mutant of SubmitNewTask: a submit is ignored while a create is in flight)
SubmitNewTaskGuarded ==
    /\ loaded
    /\ "new-task-form" \in Elements(page)
    /\ \A i \in 1..Len(procs) : ~(procs[i].kind = "create" /\ InFlight(procs[i]))
    /\ procs' = Append(procs, NewProc("create", "post", 0))
    /\ requests' = Sent(requests, Len(procs) + 1, "/tasks",
                        Options("POST", NewTaskPayload(newTaskForm), NoHeaders))
    /\ UNCHANGED <<token, page, loaded, loginError, signupError, listEl, statsEl,
                   newTaskForm, lastLoad, lastRes, call>>

SubmitNewTask ==
    /\ loaded
    /\ "new-task-form" \in Elements(page)
    /\ procs' = Append(procs, NewProc("create", "post", 0))
    /\ requests' = Sent(requests, Len(procs) + 1, "/tasks",
                        Options("POST", NewTaskPayload(newTaskForm), NoHeaders))
    /\ UNCHANGED <<token, page, loaded, loginError, signupError, listEl, statsEl,
                   newTaskForm, lastLoad, lastRes, call>>

\* (mutant of CreateSettles: line 180 is missing, the form is reset and the
\* list is left as it is)
CreateSettlesNoReload(i, res) ==
    /\ procs[i].kind = "create"
    /\ procs[i].pc = "post"
    /\ LET out == ApiOutcome(res)
       IN  IF Proceeds(out)
           THEN /\ newTaskForm' = FormDefaults
                /\ procs' = [procs EXCEPT ![i] = Finished(@, "ok")]
                /\ UNCHANGED requests
           ELSE /\ procs' = [procs EXCEPT ![i] = Finished(@, "unhandled")]
                /\ UNCHANGED <<newTaskForm, requests>>
    /\ lastRes' = Settled(i, res)
    /\ UNCHANGED <<token, page, loaded, loginError, signupError, listEl, statsEl,
                   lastLoad, call>>

CreateSettles(i, res) ==
    /\ procs[i].kind = "create"
    /\ procs[i].pc = "post"
    /\ LET out == ApiOutcome(res)
       IN  IF Proceeds(out)
           THEN LET started == LoadStarted([procs EXCEPT ![i] = Finished(@, "ok")],
                                           requests, i)
                IN  /\ newTaskForm' = FormDefaults
                    /\ procs' = started.procs
                    /\ requests' = started.requests
           ELSE /\ procs' = [procs EXCEPT ![i] = Finished(@, "unhandled")]
                /\ UNCHANGED <<newTaskForm, requests>>
    /\ lastRes' = Settled(i, res)
    /\ UNCHANGED <<token, page, loaded, loginError, signupError, listEl, statsEl,
                   lastLoad, call>>

----------------------------------------------------------------------------
(* Logout button, lines 204-207 *)

ClickLogout ==
    /\ loaded
    /\ "logout-btn" \in Elements(page)
    /\ token' = SetToken(Absent)
    /\ Navigate(HomePage, Finished(NewProc("logout", "done", 0), "ok"))
    /\ UNCHANGED <<lastRes, call>>

----------------------------------------------------------------------------
(* The program: a document is open, with any token left by an earlier visit *)

Init ==
    /\ token \in StoredTokens
    /\ page \in {AuthPage, DashboardPage}
    /\ loaded = FALSE
    /\ loginError = HiddenError
    /\ signupError = HiddenError
    /\ listEl = BlankList
    /\ statsEl = ""
    /\ newTaskForm = FormDefaults
    /\ procs = <<>>
    /\ requests = <<>>
    /\ lastLoad = 0
    /\ lastRes = NoRes
    /\ call = IdleCall

\* the invocations of a handler that are suspended at the given await
Suspended(kind, pc) == {i \in 1..Len(procs) : procs[i].kind = kind /\ procs[i].pc = pc}

Next ==
    \/ DOMContentLoaded
    \/ Room(2) /\ \E c \in Credentials : SubmitLogin(c)
    \/ \E i \in Suspended("login", "login") :
            \E res \in ControllerResponses("POST", "/auth/login") : LoginSettles(i, res)
    \/ Room(2) /\ \E c \in Credentials : SubmitSignup(c)
    \/ \E i \in Suspended("signup", "register") :
            \E res \in ControllerResponses("POST", "/auth/register") : RegisterSettles(i, res)
    \/ \E i \in Suspended("signup", "login") :
            \E res \in ControllerResponses("POST", "/auth/login") : SignupLoginSettles(i, res)
    \/ \E i \in Suspended("load", "tasks") :
            \E res \in ControllerResponses("GET", "/tasks") : LoadSettles(i, res)
    \/ Room(2) /\ \E r \in 1..MaxTaskId : ClickDelete(r, TRUE)
    \/ Room(2) /\ \E r \in 1..MaxTaskId : ClickDelete(r, FALSE)
    \/ \E i \in Suspended("delete", "delete") :
            \E res \in ControllerResponses("DELETE", "/tasks/" \o ToString(procs[i].task)) :
                DeleteSettles(i, res)
    \/ TypeNewTask
    \/ Room(2) /\ SubmitNewTask
    \/ \E i \in Suspended("create", "post") :
            \E res \in ControllerResponses("POST", "/tasks") : CreateSettles(i, res)
    \/ Room(1) /\ ClickLogout

Spec == Init /\ [][Next]_vars

----------------------------------------------------------------------------
(* The dashboard on its own (specification SpecDashboard): a signed-in     *)
(* user opens the dashboard; the handlers are those of Spec, followed for  *)
(* more invocations.                                                       *)

SignedInToken == "tokA"

InitDashboard ==
    /\ token = SignedInToken
    /\ page = DashboardPage
    /\ loaded = FALSE
    /\ loginError = HiddenError
    /\ signupError = HiddenError
    /\ listEl = BlankList
    /\ statsEl = ""
    /\ newTaskForm = FormDefaults
    /\ procs = <<>>
    /\ requests = <<>>
    /\ lastLoad = 0
    /\ lastRes = NoRes
    /\ call = IdleCall

NextDashboard ==
    \/ DOMContentLoaded
    \/ \E i \in Suspended("load", "tasks") :
            \E res \in ControllerResponses("GET", "/tasks") : LoadSettles(i, res)
    \/ DashboardRoom(2) /\ \E r \in 1..MaxTaskId : ClickDelete(r, TRUE)
    \/ DashboardRoom(2) /\ \E r \in 1..MaxTaskId : ClickDelete(r, FALSE)
    \/ \E i \in Suspended("delete", "delete") :
            \E res \in ControllerResponses("DELETE", "/tasks/" \o ToString(procs[i].task)) :
                DeleteSettles(i, res)
    \/ TypeNewTask
    \/ DashboardRoom(2) /\ SubmitNewTask
    \/ \E i \in Suspended("create", "post") :
            \E res \in ControllerResponses("POST", "/tasks") : CreateSettles(i, res)
    \/ DashboardRoom(1) /\ ClickLogout

SpecDashboard == InitDashboard /\ [][NextDashboard]_vars

----------------------------------------------------------------------------
(* One apiRequest invocation, step by step (specification SpecApi).        *)
(* call.sent holds the requests handed to fetch, call.res what fetch       *)
(* settled with, call.parses the number of res.json() calls, call.settled  *)
(* the outcome of the promise apiRequest returned.                         *)

ApiPaths == {"/auth/login", "/tasks"}
CallerHeaders ==
    {NoHeaders,
     [k \in {"Authorization"} |-> "Basic caller"],
     [k \in {"X-Trace"} |-> "1"],
     [k \in {"Authorization", "Content-Type"} |->
        IF k = "Authorization" THEN "Bearer caller" ELSE "text/plain"]}
ApiOptions ==
    {Options(m, b, h) : m \in {Absent, "POST", "DELETE"}, b \in {Absent, "{}"},
                        h \in CallerHeaders}

\* lines 15-26: read the token, build the headers, call fetch, suspend
ApiIssue ==
    /\ call.pc = "start"
    /\ call' = [call EXCEPT !.pc = "fetch",
                            !.sent = Append(@, FetchRequest(token, call.path, call.options))]
    /\ UNCHANGED <<token, page, loaded, loginError, signupError, listEl, statsEl,
                   newTaskForm, procs, requests, lastLoad, lastRes>>

\* lines 23-37: fetch settles; res.json() is called unless fetch rejected or
\* the response is an ok 204
ApiFetchSettles ==
    /\ call.pc = "fetch"
    /\ \E res \in Responses(call.sent[1].method, call.path) :
        call' = IF ParsesBody(res)
                THEN [call EXCEPT !.pc = "json", !.res = <<res>>, !.parses = @ + 1]
                ELSE [call EXCEPT !.pc = "done", !.res = <<res>>,
                                  !.settled = <<ApiOutcome(res)>>]
    /\ UNCHANGED <<token, page, loaded, loginError, signupError, listEl, statsEl,
                   newTaskForm, procs, requests, lastLoad, lastRes>>

\* lines 31-34, 38: res.json() settles and apiRequest throws or returns
ApiBodySettles ==
    /\ call.pc = "json"
    /\ call' = [call EXCEPT !.pc = "done", !.settled = <<ApiOutcome(call.res[1])>>]
    /\ UNCHANGED <<token, page, loaded, loginError, signupError, listEl, statsEl,
                   newTaskForm, procs, requests, lastLoad, lastRes>>

\* a controller stores or clears the token while the call is pending
ApiSetToken ==
    /\ call.pc \in {"start", "fetch", "json"}
    /\ \E t \in AccessTokens : token' = SetToken(t) /\ token' # token
    /\ UNCHANGED <<page, loaded, loginError, signupError, listEl, statsEl,
                   newTaskForm, procs, requests, lastLoad, lastRes, call>>

InitApi ==
    /\ token \in StoredTokens
    /\ page = HomePage
    /\ loaded = FALSE
    /\ loginError = HiddenError
    /\ signupError = HiddenError
    /\ listEl = BlankList
    /\ statsEl = ""
    /\ newTaskForm = FormDefaults
    /\ procs = <<>>
    /\ requests = <<>>
    /\ lastLoad = 0
    /\ lastRes = NoRes
    /\ \E p \in ApiPaths, o \in ApiOptions :
        call = [IdleCall EXCEPT !.pc = "start", !.path = p, !.options = o]

NextApi == ApiIssue \/ ApiFetchSettles \/ ApiBodySettles \/ ApiSetToken

SpecApi == InitApi /\ [][NextApi]_vars

----------------------------------------------------------------------------
(* Properties of apiRequest, checked under SpecApi *)

CallDone == call.pc = "done"
CallRes == call.res[1]
CallSettled == call.settled[1]
NonOk == CallDone /\ ~CallRes.failed /\ ~Ok(CallRes.status)
DetailPresent(body) == body.kind = "object" /\ body.detail # Absent

\* C4 as stated: for every non-2xx response apiRequest throws, and the message
\* is the body's detail whenever the body is valid JSON with a detail field,
\* otherwise "Request failed".
C4_AsStated ==
    NonOk =>
        /\ CallSettled.thrown
        /\ CallSettled.message =
             IF DetailPresent(CallRes.body) THEN CallRes.body.detail ELSE "Request failed"

\* C4 amended: for every non-2xx response apiRequest throws and never returns;
\* the message is the body's detail when the body is a JSON object whose
\* detail is a non-empty string, and "Request failed" when the body is not
\* JSON, is null, has no detail or has an empty detail.
C4_ErrorMessage ==
    NonOk =>
        /\ CallSettled.thrown
        /\ CallSettled.message =
             IF DetailPresent(CallRes.body) /\ CallRes.body.detail # ""
             THEN CallRes.body.detail ELSE "Request failed"

\* a non-2xx response with an empty detail has been turned into an error
C4_Witness ==
    /\ NonOk
    /\ DetailPresent(CallRes.body)
    /\ CallRes.body.detail = ""
    /\ CallSettled.thrown

\* C5 as stated: every error apiRequest throws, a rejected fetch included,
\* carries the server's detail or "Request failed".
C5_AsStated ==
    (CallDone /\ CallSettled.thrown) =>
        \/ CallSettled.message = "Request failed"
        \/ /\ ~CallRes.failed
           /\ DetailPresent(CallRes.body)
           /\ CallSettled.message = CallRes.body.detail

\* C5 amended: every error thrown for a response with a non-success status
\* carries the server's detail or "Request failed", whatever the status
\* (authentication failure, validation failure, server error); a rejected
\* fetch (network failure) surfaces with the rejection's own message and an
\* unparseable success body with the parser's message.
C5_ErrorKinds ==
    (CallDone /\ CallSettled.thrown) =>
        IF CallRes.failed THEN CallSettled.message = CallRes.message
        ELSE IF Ok(CallRes.status)
        THEN CallRes.status # 204 /\ CallRes.body.kind = "malformed"
             /\ CallSettled.message = SyntaxErrorMessage
        ELSE \/ CallSettled.message = "Request failed"
             \/ DetailPresent(CallRes.body) /\ CallSettled.message = CallRes.body.detail

\* a rejected fetch has surfaced from apiRequest
C5_Witness ==
    /\ CallDone
    /\ CallRes.failed
    /\ CallSettled.thrown
    /\ CallSettled.message \in NetworkErrorMessages

\* C8: an ok 204 response makes apiRequest return null without calling
\* res.json(); every other ok status calls res.json() once and returns the
\* body it parsed (an unparseable body makes that call, and apiRequest, reject).
C8_NoContent ==
    (CallDone /\ ~CallRes.failed /\ Ok(CallRes.status)) =>
        IF CallRes.status = 204
        THEN call.parses = 0 /\ CallSettled = Return(NullBody)
        ELSE /\ call.parses = 1
             /\ IF CallRes.body.kind = "malformed"
                THEN CallSettled.thrown /\ CallSettled.message = SyntaxErrorMessage
                ELSE CallSettled = Return(CallRes.body)

\* a 204 response has been returned as null
C8_Witness ==
    /\ CallDone
    /\ ~CallRes.failed
    /\ CallRes.status = 204
    /\ ~CallSettled.thrown
    /\ CallSettled.value.kind = "null"

\* C10: the request apiRequest hands to fetch carries Authorization: Bearer
\* <token> with the token stored at that moment, also when the caller's
\* headers hold an Authorization key; with no token stored the only
\* Authorization header it can carry is the caller's own.
C10_Authorization ==
    [][(call.pc = "start" /\ call'.pc = "fetch") =>
        LET sentHeaders == call'.sent[1].headers
            callerHeaders == call.options.headers
        IN  /\ Len(call'.sent) = 1
            /\ IF token \in Tokens
               THEN /\ "Authorization" \in DOMAIN sentHeaders
                    /\ sentHeaders["Authorization"] = "Bearer " \o token
               ELSE IF "Authorization" \in DOMAIN callerHeaders
               THEN /\ "Authorization" \in DOMAIN sentHeaders
                    /\ sentHeaders["Authorization"] = callerHeaders["Authorization"]
               ELSE "Authorization" \notin DOMAIN sentHeaders]_vars

\* a request whose caller supplied an Authorization header went out with the
\* stored token's header instead
C10_Witness ==
    /\ call.pc = "fetch"
    /\ "Authorization" \in DOMAIN call.options.headers
    /\ token \in Tokens
    /\ call.sent[1].headers["Authorization"] = "Bearer " \o token

----------------------------------------------------------------------------
(* Properties of the controllers, checked under Spec *)

Procs == 1..Len(procs)

\* the step in which invocation i, suspended at pc, resumes for the last time
\* (on the same document, or navigating away from it)
Resumes(i, kind, pc) ==
    /\ procs[i].kind = kind
    /\ procs[i].pc = pc
    /\ IF page' = page
       THEN lastRes'.proc = i /\ procs'[i].pc = "done"
       ELSE lastRes'.proc = 1 /\ procs'[1] = [procs[i] EXCEPT !.pc = "done", !.result = "ok",
                                                              !.prior = token]

\* the call failed with a rejected fetch or a non-success status
CallFailed(res) == res.failed \/ ~Ok(res.status)
\* the message apiRequest throws for such a call
FailureMessage(res) ==
    IF res.failed THEN res.message
    ELSE IF res.body.kind = "object" /\ res.body.detail \notin {Absent, ""}
    THEN res.body.detail
    ELSE "Request failed"

\* C1 as stated: when a signup's register call succeeded and its login call
\* fails, no token is stored when handleSignup finishes, whatever was stored
\* before, and the signup error element shows the login error's message.
C1_AsStated ==
    [][\A i \in Procs :
        (Resumes(i, "signup", "login") /\ CallFailed(lastRes'.res)) =>
            /\ token' = Absent
            /\ signupError' = [hidden |-> FALSE, text |-> FailureMessage(lastRes'.res)]]_vars

\* C1 amended: when a signup's register call succeeded and its login call
\* fails, handleSignup leaves the stored token as it was (absent if none was
\* stored, the earlier token if one was), stays on the page, and the signup
\* error element shows the login error's message.
C1_SignupLoginFailure ==
    [][\A i \in Procs :
        (Resumes(i, "signup", "login") /\ CallFailed(lastRes'.res)) =>
            /\ token' = token
            /\ page' = page
            /\ signupError' = [hidden |-> FALSE, text |-> FailureMessage(lastRes'.res)]]_vars

\* a signup whose login call failed has finished while a token was stored
C1_Witness ==
    \E i \in Procs :
        /\ procs[i].kind = "signup"
        /\ procs[i].result = "login failed"
        /\ lastRes.proc = i
        /\ CallFailed(lastRes.res)
        /\ procs[i].prior \in Tokens
        /\ token = procs[i].prior
        /\ ~signupError.hidden

\* the requests invocation i has issued, and the loads it has started
RequestsOf(i) == {k \in 1..Len(requests) : requests[k].proc = i}
ReloadsOf(i) == {j \in Procs : procs[j].kind = "load" /\ procs[j].parent = i}
IsDelete(k, id) ==
    /\ requests[k].req.method = "DELETE"
    /\ requests[k].req.url = "/tasks/" \o ToString(id)
IsReload(k) == requests[k].req.method = "GET" /\ requests[k].req.url = "/tasks"
\* apiRequest fulfils: an ok status with no content or with a body that parses
Fulfils(res) ==
    /\ ~res.failed
    /\ Ok(res.status)
    /\ (res.status = 204 \/ res.body.kind # "malformed")

\* what holds of every click on a Delete button whatever the call's outcome:
\* nothing is issued when the prompt is declined, and otherwise exactly one
\* DELETE /tasks/{id}, which precedes every reload the click leads to
DeleteIssuesOne(i) ==
    IF procs[i].result = "declined"
    THEN RequestsOf(i) = {} /\ ReloadsOf(i) = {}
    ELSE /\ Cardinality(RequestsOf(i)) = 1
         /\ \A k \in RequestsOf(i) : IsDelete(k, procs[i].task)
         /\ \A j \in ReloadsOf(i) :
                /\ Cardinality(RequestsOf(j)) = 1
                /\ \A k \in RequestsOf(j), d \in RequestsOf(i) : IsReload(k) /\ d < k

\* C2 as stated: an affirmed delete issues exactly one DELETE followed by
\* exactly one reload, whatever the outcome of the DELETE; a declined one
\* issues neither.
C2_AsStated ==
    \A i \in Procs :
        procs[i].kind = "delete" =>
            /\ DeleteIssuesOne(i)
            /\ (procs[i].pc = "done" /\ procs[i].result # "declined") =>
                    Cardinality(ReloadsOf(i)) = 1

\* C2 amended: an affirmed delete issues exactly one DELETE /tasks/{id}; when
\* that call succeeds exactly one reload (GET /tasks) follows it, and when it
\* fails (rejected fetch, non-success status, unparseable success body) no
\* reload is issued; a declined delete issues neither call.
C2_DeleteThenReload ==
    \A i \in Procs :
        procs[i].kind = "delete" =>
            /\ DeleteIssuesOne(i)
            /\ Cardinality(ReloadsOf(i)) = IF procs[i].result = "ok" THEN 1 ELSE 0
            /\ (procs[i].pc = "done" /\ lastRes.proc = i) =>
                    (procs[i].result = "ok" <=> Fulfils(lastRes.res))

\* a delete whose call failed has finished without a reload
C2_Witness ==
    \E i \in Procs :
        /\ procs[i].kind = "delete"
        /\ procs[i].pc = "done"
        /\ lastRes.proc = i
        /\ ~Fulfils(lastRes.res)
        /\ Cardinality(RequestsOf(i)) = 1
        /\ ReloadsOf(i) = {}

\* C3 as stated: after a login call that returns a success status the stored
\* token equals the response's access_token (absent when it is missing),
\* whatever was stored before.
C3_AsStated ==
    [][\A i \in Procs :
        (Resumes(i, "login", "login") /\ ~lastRes'.res.failed /\ Ok(lastRes'.res.status)) =>
            token' = lastRes'.res.body.access_token]_vars

\* C3 amended: after a login call that returns a success status with a JSON
\* object as body, the stored token equals the response's access_token when
\* that is a non-empty string and is absent when access_token is empty or
\* missing, so that no previously stored value persists; a success response
\* without a body (204), with a null body or with an unparseable body leaves
\* the stored token unchanged.
C3_LoginStoresToken ==
    [][\A i \in Procs :
        (Resumes(i, "login", "login") /\ ~lastRes'.res.failed /\ Ok(lastRes'.res.status)) =>
            LET res == lastRes'.res
            IN  IF res.status # 204 /\ res.body.kind = "object"
                THEN token' = IF res.body.access_token \in {Absent, ""} THEN Absent
                              ELSE res.body.access_token
                ELSE token' = token]_vars

\* a login has replaced a stored token by the access_token of its response
C3_Witness ==
    /\ page = DashboardPage
    /\ Len(procs) >= 1
    /\ procs[1].kind = "login"
    /\ procs[1].result = "ok"
    /\ lastRes.proc = 1
    /\ procs[1].prior \in Tokens
    /\ token \in Tokens
    /\ token # procs[1].prior
    /\ token = lastRes.res.body.access_token

Loads == {i \in Procs : procs[i].kind = "load"}
NoLoadInFlight == \A i \in Loads : ~InFlight(procs[i])
\* the load whose GET /tasks was issued last
LastIssuedLoad == CHOOSE i \in Loads : \A j \in Loads : j <= i

\* #task-list shows what load i received
Shows(i) ==
    IF procs[i].result = "ok"
    THEN IF procs[i].items = <<>>
         THEN listEl.kind = "placeholder"
         ELSE /\ listEl.kind = "rows"
              /\ Len(listEl.rows) = Len(procs[i].items)
              /\ \A k \in 1..Len(listEl.rows) :
                    /\ listEl.rows[k].task = procs[i].items[k].id
                    /\ listEl.rows[k].title = procs[i].items[k].title
    ELSE listEl.kind = "error" /\ listEl.text = procs[i].err

\* C6 as stated: whenever no load is in flight, #task-list shows the response
\* of the most recently issued GET /tasks.
C6_AsStated ==
    (Loads # {} /\ NoLoadInFlight) => Shows(LastIssuedLoad)

\* C6 amended: whenever no load is in flight, #task-list shows the response of
\* the load that completed most recently, for every interleaving of
\* overlapping loads and every order in which their responses arrive.
C6_LastCompletedLoad ==
    (Loads # {} /\ NoLoadInFlight) => (lastLoad \in Loads /\ Shows(lastLoad))

\* the load issued first completed last, and its rows are on screen
C6_Witness ==
    /\ NoLoadInFlight
    /\ lastLoad \in Loads
    /\ lastLoad < LastIssuedLoad
    /\ procs[lastLoad].items # procs[LastIssuedLoad].items
    /\ procs[LastIssuedLoad].result = "ok"
    /\ listEl.kind = "rows"

\* C7: the step of the logout handler leaves no token stored, whatever was
\* stored before.
C7_Logout ==
    [][(page # HomePage /\ page' = HomePage /\ procs'[1].kind = "logout") =>
        token' = Absent]_vars

\* the logout handler has run while a token was stored
C7_Witness ==
    /\ page = HomePage
    /\ Len(procs) = 1
    /\ procs[1].kind = "logout"
    /\ procs[1].prior \in Tokens
    /\ token = Absent

\* the figures of the summary line, counted from the response's items
RECURSIVE LoggedSum(_, _)
LoggedSum(items, n) == IF n = 0 THEN 0 ELSE items[n].time_logged + LoggedSum(items, n - 1)
\* hundredths to one decimal: the nearest tenth, ties upwards
OneDecimal(x) ==
    LET t == CHOOSE t \in 0..(x \div 10 + 1) : 10 * t - 5 <= x /\ x < 10 * t + 5
    IN  ToString(t \div 10) \o "." \o ToString(t % 10)

\* C9: a load whose response carries zero tasks renders exactly the
\* placeholder text and an empty summary; one that carries N > 0 tasks
\* renders N rows and the summary "<N> tasks * <done> completed * <hours>h
\* logged" with done the number of tasks whose status is done and hours the
\* sum of time_logged to one decimal.
C9_RenderedList ==
    (/\ lastLoad # 0
     /\ lastRes.proc = lastLoad
     /\ Fulfils(lastRes.res)
     /\ lastRes.res.status # 204
     /\ lastRes.res.body.kind = "object"
     /\ lastRes.res.body.hasItems) =>
        LET items == lastRes.res.body.items
            N == Len(items)
            done == Cardinality({k \in 1..N : items[k].status = "done"})
        IN  IF N = 0
            THEN /\ listEl = [kind |-> "placeholder", rows |-> <<>>,
                              text |-> "No tasks yet. Create your first one above."]
                 /\ statsEl = ""
            ELSE /\ listEl.kind = "rows"
                 /\ listEl.text = ""
                 /\ Len(listEl.rows) = N
                 /\ statsEl = ToString(N) \o " tasks * " \o ToString(done)
                                \o " completed * " \o OneDecimal(LoggedSum(items, N))
                                \o "h logged"

\* the two tasks of the example (done, 2.25 h; todo, 1.0 h) are on screen
C9_Witness ==
    /\ lastLoad # 0
    /\ lastRes.proc = lastLoad
    /\ Len(listEl.rows) = 2
    /\ lastRes.res.body.items = <<Task(1), Task(2)>>
    /\ statsEl = "2 tasks * 1 completed * 3.3h logged"

\* invocation i, suspended at pc, resumes in this step and stays on the page
Continues(i, kind, pc) ==
    /\ procs[i].kind = kind
    /\ procs[i].pc = pc
    /\ page' = page
    /\ lastRes'.proc = i
    /\ procs'[i].pc # pc
\* the request a signup makes to path with the credentials c
IsSignupCall(r, i, path, c) ==
    /\ r.proc = i
    /\ r.req.method = "POST"
    /\ r.req.url = path
    /\ r.req.body = c
\* the login call returned an object: data.access_token can be read
LoginSucceeds(res) == Fulfils(res) /\ res.status # 204 /\ res.body.kind = "object"

\* C11: a signup issues the register call with the form's credentials; the
\* login call is issued only in the step in which the register call returns
\* success, with the same credentials, and the token is stored and the
\* dashboard navigated to only in the step in which that login call succeeds;
\* when the register call fails no login call is issued, the stored token
\* and the page are unchanged and the signup error element shows the error.
C11_SignupSequence ==
    [][\A i \in Procs :
        /\ (procs[i].kind = "signup" /\ procs[i].pc = "register") =>
                /\ Cardinality(RequestsOf(i)) = 1
                /\ \A k \in RequestsOf(i) :
                        IsSignupCall(requests[k], i, "/auth/register", procs[i].creds)
        /\ Continues(i, "signup", "register") =>
                /\ token' = token
                /\ page' = page
                /\ IF Fulfils(lastRes'.res)
                   THEN /\ Len(requests') = Len(requests) + 1
                        /\ IsSignupCall(requests'[Len(requests')], i, "/auth/login",
                                        procs[i].creds)
                        /\ procs'[i].pc = "login"
                        /\ signupError' = signupError
                   ELSE /\ requests' = requests
                        /\ procs'[i].pc = "done"
                        /\ ~signupError'.hidden
                        /\ CallFailed(lastRes'.res) =>
                                signupError'.text = FailureMessage(lastRes'.res)
        /\ Resumes(i, "signup", "login") =>
                /\ Cardinality(RequestsOf(i)) = 2
                /\ IF LoginSucceeds(lastRes'.res)
                   THEN /\ page' = DashboardPage
                        /\ token' \in {lastRes'.res.body.access_token, Absent}
                   ELSE /\ page' = page
                        /\ token' = token
                        /\ requests' = requests]_vars

\* a signup whose register call and login call both succeeded has stored
\* the token of the login response and opened the dashboard
C11_Witness ==
    /\ page = DashboardPage
    /\ ~loaded
    /\ Len(procs) = 1
    /\ procs[1].kind = "signup"
    /\ procs[1].result = "ok"
    /\ lastRes.proc = 1
    /\ LoginSucceeds(lastRes.res)
    /\ token \in Tokens
    /\ token = lastRes.res.body.access_token
    /\ token # procs[1].prior

\* invocation i resumes in this step, finishes, and stays on the page
Completes(i) ==
    /\ procs[i].pc # "done"
    /\ page' = page
    /\ lastRes'.proc = i
    /\ procs'[i].pc = "done"
\* a success status other than 204 with a body that is not JSON
MalformedSuccess(res) ==
    /\ ~res.failed
    /\ Ok(res.status)
    /\ res.status # 204
    /\ res.body.kind = "malformed"
ParseErrorShown == [hidden |-> FALSE, text |-> SyntaxErrorMessage]

\* C12 as stated: when a success response carries an unparseable body, the
\* controller that awaits it (login, signup, load, create or delete) ends
\* with an unhandled rejection and no inline error is displayed.
C12_AsStated ==
    [][\A i \in Procs :
        (Completes(i) /\ MalformedSuccess(lastRes'.res)) =>
            /\ procs'[i].result = "unhandled"
            /\ UNCHANGED <<loginError, signupError, listEl, statsEl>>]_vars

\* C12 amended: when a success response carries an unparseable body,
\* apiRequest rejects with the parser's error; create and delete do not catch
\* it (unhandled rejection, nothing displayed, no reload issued), while
\* login, signup and load catch it like any other error and display the
\* parser's message in the login error element, the signup error element and
\* the task list (with a blank summary) respectively; the token and the page
\* are unchanged in every case.
C12_MalformedSuccess ==
    [][\A i \in Procs :
        (Completes(i) /\ MalformedSuccess(lastRes'.res)) =>
            /\ token' = token
            /\ requests' = requests
            /\ Len(procs') = Len(procs)
            /\ IF procs[i].kind \in {"create", "delete"}
               THEN /\ procs'[i].result = "unhandled"
                    /\ UNCHANGED <<loginError, signupError, listEl, statsEl, newTaskForm>>
               ELSE IF procs[i].kind = "login"
               THEN /\ loginError' = ParseErrorShown
                    /\ UNCHANGED <<signupError, listEl, statsEl>>
               ELSE IF procs[i].kind = "signup"
               THEN /\ signupError' = ParseErrorShown
                    /\ UNCHANGED <<loginError, listEl, statsEl>>
               ELSE /\ procs[i].kind = "load"
                    /\ listEl' = [kind |-> "error", rows |-> <<>>, text |-> SyntaxErrorMessage]
                    /\ statsEl' = ""
                    /\ UNCHANGED <<loginError, signupError>>]_vars

\* a login whose success response did not parse has shown the parser's
\* message in the login error element
C12_Witness ==
    \E i \in Procs :
        /\ procs[i].kind = "login"
        /\ procs[i].pc = "done"
        /\ procs[i].result = "caught"
        /\ lastRes.proc = i
        /\ MalformedSuccess(lastRes.res)
        /\ loginError = ParseErrorShown

\* the request issued last in this step is the GET /tasks of a load that the
\* step started on behalf of invocation i
ReloadStartedBy(i) ==
    /\ Len(procs') = Len(procs) + 1
    /\ procs'[Len(procs')].kind = "load"
    /\ procs'[Len(procs')].pc = "tasks"
    /\ procs'[Len(procs')].parent = i
    /\ Len(requests') = Len(requests) + 1
    /\ requests'[Len(requests')].proc = Len(procs')
    /\ requests'[Len(requests')].req.method = "GET"
    /\ requests'[Len(requests')].req.url = "/tasks"
    /\ requests'[Len(requests')].req.body = Absent

\* C13: the step in which a create (POST /tasks) or delete (DELETE
\* /tasks/{id}) call returns successfully issues one GET /tasks, after the
\* response, and a failed one issues none; no step of a create or delete
\* handler changes the task list or the summary line: on one document they
\* change only in a step in which a load completes.
C13_RefetchAfterMutation ==
    [][/\ \A i \in Procs :
            (procs[i].kind \in {"create", "delete"} /\ Completes(i)) =>
                /\ listEl' = listEl
                /\ statsEl' = statsEl
                /\ IF Fulfils(lastRes'.res)
                   THEN ReloadStartedBy(i)
                   ELSE requests' = requests /\ Len(procs') = Len(procs)
       /\ (page' = page /\ (listEl' # listEl \/ statsEl' # statsEl)) =>
            \E i \in Procs : procs[i].kind = "load" /\ Completes(i)]_vars

\* a create has succeeded while rows were on screen: its reload is in flight
\* and the rows are still those of the earlier load
C13_Witness ==
    \E i \in Procs :
        /\ procs[i].kind = "create"
        /\ procs[i].result = "ok"
        /\ lastRes.proc = i
        /\ Fulfils(lastRes.res)
        /\ \E j \in ReloadsOf(i) :
                /\ InFlight(procs[j])
                /\ \E k \in RequestsOf(j) : IsReload(k) /\ k = Len(requests)
        /\ lastLoad # 0
        /\ listEl.kind = "rows"
        /\ Shows(lastLoad)

\* apiRequest throws for this response: a rejected fetch, a non-success
\* status, or a success body that does not parse
ApiThrows(res) == CallFailed(res) \/ MalformedSuccess(res)
ThrownMessage(res) == IF CallFailed(res) THEN FailureMessage(res) ELSE SyntaxErrorMessage
\* the stored token is the one request r was issued with
IssuedWithToken(r, t) ==
    IF t \in Tokens
    THEN /\ "Authorization" \in DOMAIN r.req.headers
         /\ r.req.headers["Authorization"] = "Bearer " \o t
    ELSE "Authorization" \notin DOMAIN r.req.headers
\* the login form is submitted in this step
LoginSubmitted ==
    /\ Len(procs') = Len(procs) + 1
    /\ procs'[Len(procs')].kind = "login"

\* C14: a login whose apiRequest call throws makes the login error element
\* visible with the thrown error's message, stays on the page and leaves the
\* stored token as it was when the form was submitted; the submit step hides
\* the login error element (keeping its text) and issues the login request.
C14_FailedLogin ==
    [][/\ \A i \in Procs :
            (Resumes(i, "login", "login") /\ ApiThrows(lastRes'.res)) =>
                /\ loginError' = [hidden |-> FALSE, text |-> ThrownMessage(lastRes'.res)]
                /\ page' = page
                /\ token' = token
                /\ requests' = requests
                /\ \A k \in RequestsOf(i) : IssuedWithToken(requests[k], token')
       /\ LoginSubmitted =>
                /\ loginError'.hidden
                /\ loginError'.text = loginError.text
                /\ page' = page
                /\ token' = token
                /\ Len(requests') = Len(requests) + 1
                /\ requests'[Len(requests')].proc = Len(procs')
                /\ requests'[Len(requests')].req.url = "/auth/login"
                /\ requests'[Len(requests')].req.method = "POST"
                /\ requests'[Len(requests')].req.body = procs'[Len(procs')].creds]_vars

\* a second login has failed after the error of the first was hidden by its
\* submit; the error is visible again and the token is the one stored before
C14_Witness ==
    \E i, j \in Procs :
        /\ i < j
        /\ procs[i].kind = "login" /\ procs[i].result = "caught"
        /\ procs[j].kind = "login" /\ procs[j].result = "caught"
        /\ lastRes.proc = j
        /\ ApiThrows(lastRes.res)
        /\ loginError = [hidden |-> FALSE, text |-> ThrownMessage(lastRes.res)]
        /\ page = AuthPage
        /\ token \in Tokens
        /\ \A k \in RequestsOf(j) : IssuedWithToken(requests[k], token)

\* the apiRequest calls invocation i has made so far
Calls(i) ==
    LET p == procs[i]
    IN  IF p.kind = "logout" THEN 0
        ELSE IF p.kind = "delete" /\ p.result = "declined" THEN 0
        ELSE IF p.kind = "signup" /\ (p.pc = "login" \/ p.result \in {"login failed", "ok"})
        THEN 2
        ELSE 1
\* invocation i ended with an error (caught by its handler or not)
Failed(i) ==
    procs[i].result \in {"caught", "unhandled", "register failed", "login failed"}

\* C15: on a loaded document every apiRequest call has issued exactly one
\* HTTP request, whatever it settled with (success, non-success status,
\* network failure): each invocation has as many requests in the log as calls
\* it made, every request belongs to an invocation, and an invocation that
\* ended with an error has issued nothing after the failing call and has
\* started no load.
C15_NoRetry ==
    loaded =>
        /\ \A i \in Procs : Cardinality(RequestsOf(i)) = Calls(i)
        /\ \A k \in 1..Len(requests) : requests[k].proc \in Procs
        /\ \A i \in Procs : Failed(i) => ReloadsOf(i) = {}

\* a create whose fetch was rejected has ended with the one POST it issued
\* as the last request of the log
C15_Witness ==
    \E i \in Procs :
        /\ loaded
        /\ procs[i].kind = "create"
        /\ procs[i].result = "unhandled"
        /\ lastRes.proc = i
        /\ lastRes.res.failed
        /\ Cardinality(RequestsOf(i)) = 1
        /\ Len(requests) \in RequestsOf(i)

\* C17: when the GET /tasks call of a load fails (apiRequest throws), the
\* task list holds the error message and nothing else, no row of an earlier
\* load, and the summary line is blank.
C17_FailedLoad ==
    (/\ lastLoad # 0
     /\ lastRes.proc = lastLoad
     /\ ApiThrows(lastRes.res)) =>
        /\ listEl = [kind |-> "error", rows |-> <<>>, text |-> ThrownMessage(lastRes.res)]
        /\ statsEl = ""

\* a load has failed after an earlier load had put rows on screen
C17_Witness ==
    /\ lastLoad # 0
    /\ lastRes.proc = lastLoad
    /\ ApiThrows(lastRes.res)
    /\ \E j \in Loads :
            /\ j < lastLoad
            /\ procs[j].result = "ok"
            /\ procs[j].items # <<>>
            /\ \A k \in Loads : k \notin {j, lastLoad} => InFlight(procs[k])
    /\ listEl.kind = "error"
    /\ listEl.rows = <<>>
    /\ statsEl = ""

\* C18: the stored token changes only in the step in which a login or a
\* signup's login succeeds (the dashboard is opened) or in the step of the
\* logout handler (the home page is opened); every step that stays on the
\* page, so every step of a load, a create or a delete and every failed
\* login or register, and every step in which a call fails, leaves it unchanged.
C18_TokenFrame ==
    [][/\ token' # token =>
            /\ page' # page
            /\ Len(procs') = 1
            /\ procs'[1].pc = "done"
            /\ \/ /\ procs'[1].kind \in {"login", "signup"}
                  /\ page' = DashboardPage
                  /\ lastRes'.proc = 1
                  /\ LoginSucceeds(lastRes'.res)
               \/ /\ procs'[1].kind = "logout"
                  /\ page' = HomePage
                  /\ token' = Absent
       /\ page' = page => token' = token
       /\ \A i \in Procs :
            (procs[i].pc # "done" /\ lastRes'.proc = i /\ procs'[i].pc # procs[i].pc
                /\ page' = page) => token' = token
       /\ (lastRes' # lastRes /\ ApiThrows(lastRes'.res)) => token' = token]_vars

\* on the dashboard a load, a create and a delete have run, one of them
\* failing, and the token is still the one the first request was issued with
C18_Witness ==
    /\ page = DashboardPage
    /\ token \in Tokens
    /\ \E i, j \in Procs :
            /\ procs[i].kind = "create" /\ procs[i].result = "unhandled"
            /\ procs[j].kind = "delete" /\ procs[j].result \in {"ok", "unhandled"}
    /\ lastLoad # 0
    /\ \A k \in 1..Len(requests) : IssuedWithToken(requests[k], token)

\* the summary line for a non-empty list of tasks
SummaryLine(items) ==
    LET N == Len(items)
        done == Cardinality({k \in 1..N : items[k].status = "done"})
    IN  ToString(N) \o " tasks * " \o ToString(done) \o " completed * "
            \o OneDecimal(LoggedSum(items, N)) \o "h logged"

\* C19: in every state the summary line is non-empty only while the task
\* list holds rows, and blank while it is empty or shows the placeholder or
\* an error; once a load has completed, the list and the summary both come
\* from the response of the load that completed last: its rows and their
\* summary, or its placeholder or error with a blank summary, however the
\* loads overlapped.
C19_SameResponse ==
    /\ statsEl # "" => listEl.kind = "rows"
    /\ listEl.kind \in {"blank", "placeholder", "error"} => statsEl = ""
    /\ lastLoad # 0 =>
            /\ lastLoad \in Loads
            /\ Shows(lastLoad)
            /\ statsEl = IF procs[lastLoad].result = "ok" /\ procs[lastLoad].items # <<>>
                         THEN SummaryLine(procs[lastLoad].items)
                         ELSE ""

\* of two overlapping loads the one issued first completed last with one
\* task, after the other had shown two: one row and its summary are on screen
C19_Witness ==
    /\ lastLoad \in Loads
    /\ \E j \in Loads :
            /\ lastLoad < j
            /\ procs[j].result = "ok"
            /\ Len(procs[j].items) = 2
    /\ Len(procs[lastLoad].items) = 1
    /\ Len(listEl.rows) = 1
    /\ statsEl = "1 tasks * 1 completed * 2.3h logged"

----------------------------------------------------------------------------
(* Properties of the dashboard, checked under SpecDashboard *)

Creates == {i \in Procs : procs[i].kind = "create"}
IsCreate(k) == requests[k].req.method = "POST" /\ requests[k].req.url = "/tasks"

\* C16: the new-task form can be submitted whenever the dashboard is loaded,
\* also while earlier POST /tasks calls are in flight; every submit issues
\* its own POST /tasks, and every create whose call succeeded has started
\* exactly one reload of its own, whose GET /tasks follows that POST.
C16_DoubleSubmit ==
    /\ (loaded /\ page = DashboardPage) => ENABLED SubmitNewTask
    /\ \A i \in Creates :
            /\ Cardinality(RequestsOf(i)) = 1
            /\ \A k \in RequestsOf(i) : IsCreate(k)
            /\ Cardinality(ReloadsOf(i)) = IF procs[i].result = "ok" THEN 1 ELSE 0
            /\ \A j \in ReloadsOf(i) :
                    /\ Cardinality(RequestsOf(j)) = 1
                    /\ \A k \in RequestsOf(j), c \in RequestsOf(i) : IsReload(k) /\ c < k
            /\ (procs[i].pc = "done" /\ lastRes.proc = i) =>
                    (procs[i].result = "ok" <=> Fulfils(lastRes.res))

\* two creates were in flight at once (the second POST was issued before
\* the first create's reload), both succeeded, and each has a reload of its own
C16_Witness ==
    \E i, j \in Creates :
        /\ i < j
        /\ procs[i].result = "ok"
        /\ procs[j].result = "ok"
        /\ \E ri \in ReloadsOf(i), rj \in ReloadsOf(j) :
                /\ ri # rj
                /\ \A c \in RequestsOf(j), k \in RequestsOf(ri) : c < k

====
